---- MODULE Spec2Model ----
(***************************************************************************)
(* Tick scheduler and system state machine of the embedded VR telemetry    *)
(* core (src/src/vr_embedded.c), with the broker connection flag of        *)
(* vr_rabbitmq.c.  One action per scheduler step of vr_embedded_main_loop  *)
(* and one per public entry point (vr_error_handler, vr_system_reset).     *)
(* Voltages are in tenths of a volt (3.3f -> 33, 3.0f -> 30), currents in  *)
(* tenths of an ampere (0.5f -> 5).                                        *)
(***************************************************************************)
EXTENDS Integers, Naturals, Sequences, FiniteSets, TLC

VARIABLES
    pc,                     \* position of the main thread
    g_embedded_config,      \* vr_embedded_config_t
    g_embedded_status,      \* vr_embedded_status_t
    g_system_tick,
    g_last_sensor_update,
    g_last_telemetry_send,
    g_last_watchdog_feed,
    g_system_voltage, g_system_current,
    g_power_save_active,
    g_system_mutex,         \* "free" or "held"
    g_connected,            \* vr_rabbitmq.c connection flag
    frame_counter,          \* static of vr_sensors_update
    packet_frame_id,        \* g_telemetry_packet.frame_id
    self_test_passed,       \* result of the last vr_sensors_self_test
    telemetry_calls,        \* number of vr_telemetry_send_packet calls
    watchdog_feeds,         \* number of vr_watchdog_feed calls
    prev_feed_tick,         \* tick of the previous vr_watchdog_feed call
    sink_calls,             \* vr_rabbitmq_send_telemetry calls made by the
                            \* last evaluation of the telemetry gate
    g_running,              \* main.c: cleared by signal_handler
    op                      \* the operation that produced this state

vars == <<pc, g_embedded_config, g_embedded_status, g_system_tick,
          g_last_sensor_update, g_last_telemetry_send, g_last_watchdog_feed,
          g_system_voltage, g_system_current, g_power_save_active, g_system_mutex, g_connected,
          frame_counter, packet_frame_id, self_test_passed, telemetry_calls,
          watchdog_feeds, prev_feed_tick, sink_calls, g_running, op>>

\* ---------------------------------------------------------------- bounds
MaxTick == 8
MaxErrors == 12
ScenarioTicks == 2000
FailTicks == 200

\* ------------------------------------------------------------- constants
\* The counters are uint32_t.  TLC's integers are 32-bit signed, so the
\* modulus 2^32 itself is not representable, and a run of 2^32 ticks is out
\* of reach; 2^13 stands for it (the arithmetic below is the same wrap-around
\* arithmetic, on a shorter word that still holds every configured value).
U32 == 2 ^ 13

Sub32_NoWrap(a, b) == a - b

Sub32(a, b) == (a - b) % U32

Inc32(a) == (a + 1) % U32

SensorRates == {2000, 1000, 400}

TelemetryRates == {2000, 300}

WatchdogTimeouts == {1, 2, 5}

Configs ==
    { c \in [ sensor_update_hz : SensorRates,
              telemetry_rate_hz : TelemetryRates,
              watchdog_enabled : BOOLEAN,
              watchdog_timeout_ms : WatchdogTimeouts,
              power_save_enabled : BOOLEAN,
              cpu_sleep_level : {0, 1} ] :
        /\ (~c.watchdog_enabled => c.watchdog_timeout_ms = 5)
        /\ (c.cpu_sleep_level = 0 <=> ~c.power_save_enabled) }

ZeroConfig ==
    [ sensor_update_hz |-> 0, telemetry_rate_hz |-> 0,
      watchdog_enabled |-> FALSE, watchdog_timeout_ms |-> 0,
      power_save_enabled |-> FALSE, cpu_sleep_level |-> 0 ]

ZeroStatus ==
    [ state |-> "INIT", uptime_ms |-> 0, last_watchdog_reset |-> 0,
      error_count |-> 0, reset_count |-> 0,
      sensors_initialized |-> FALSE, communication_ready |-> FALSE ]

LoopPcs == {"tick", "sensor", "telemetry", "watchdog", "power"}

\* ------------------------------------------------------ status functions

vr_embedded_set_state(s, st) == [s EXCEPT !.state = st]

ReportThresholdTripped_OffByOne(count) == count > 6

ReportThresholdTripped(count) == count > 5

TickThresholdTripped_OffByOne(count) == count > 11

TickThresholdTripped(count) == count > 10

vr_error_handler_Eager(s) ==
    LET s1 == [s EXCEPT !.error_count = Inc32(@)]
    IN  IF s1.error_count > 3
        THEN vr_embedded_set_state(s1, "ERROR")
        ELSE s1

vr_error_handler(s) ==
    LET s1 == [s EXCEPT !.error_count = Inc32(@)]
    IN  IF ReportThresholdTripped(s1.error_count)
        THEN vr_embedded_set_state(s1, "ERROR")
        ELSE s1

vr_sensors_init_Silent(s, ok) == s

vr_sensors_init(s, ok) == IF ok THEN s ELSE vr_error_handler(s)

vr_power_init_Active == [voltage |-> 33, current |-> 5, active |-> TRUE]

\* vr_power_init: the voltage, the current and the sleep-active flag it sets
vr_power_init == [voltage |-> 33, current |-> 5, active |-> FALSE]

vr_sensors_update_SkipsOne(counter) ==
    [frame_id |-> counter, frame_counter |-> Inc32(Inc32(counter))]

\* vr_sensors_update: g_telemetry_packet.frame_id = frame_counter++
vr_sensors_update(counter) ==
    [frame_id |-> counter, frame_counter |-> Inc32(counter)]

StepAfter_TelemetryFirst(p) ==
    CASE p = "tick" -> "telemetry"
      [] p = "telemetry" -> "sensor"
      [] p = "sensor" -> "watchdog"
      [] p = "watchdog" -> "power"

\* vr_embedded_main_loop: the step that follows step p in the loop body
StepAfter(p) ==
    CASE p = "tick" -> "sensor"
      [] p = "sensor" -> "telemetry"
      [] p = "telemetry" -> "watchdog"
      [] p = "watchdog" -> "power"

vr_watchdog_feed(s, now) == [s EXCEPT !.last_watchdog_reset = now]

vr_rabbitmq_init(connected, ok) == IF ok THEN TRUE ELSE connected

vr_telemetry_init(s, ok) ==
    IF ok THEN s ELSE [s EXCEPT !.communication_ready = FALSE]

vr_telemetry_is_ready_IgnoresBroker(s, connected) == s.communication_ready

vr_telemetry_is_ready(s, connected) == s.communication_ready /\ connected

\* vr_embedded_init: the status it leaves, whatever the status before
vr_embedded_init(s, cfg, st_ok, mq_ok, now) ==
    LET s0 == ZeroStatus
        s1 == vr_sensors_init(s0, st_ok)
        s2 == IF cfg.watchdog_enabled THEN vr_watchdog_feed(s1, now) ELSE s1
        s3 == vr_telemetry_init(s2, mq_ok)
    IN  [s3 EXCEPT !.state = "READY",
                   !.sensors_initialized = TRUE,
                   !.communication_ready = TRUE]

\* ------------------------------------------------------- rate arithmetic

SensorInterval_Inverted(hz) == hz \div 1000

SensorInterval_Ceil(hz) == (1000 + hz - 1) \div hz

SensorInterval(hz) == 1000 \div hz

TelemetryInterval_Rounded(hz) == (1000 + hz \div 2) \div hz

TelemetryInterval(hz) == 1000 \div hz

WatchdogInterval_Full(timeout_ms) == timeout_ms

WatchdogInterval(timeout_ms) == timeout_ms \div 2

GateDue_Strict(now, last, interval) == Sub32(now, last) > interval

GateDue(now, last, interval) == Sub32(now, last) >= interval

\* ------------------------------------------------------------------ Init

Init ==
    /\ pc = "boot"
    /\ g_embedded_config = ZeroConfig
    /\ g_embedded_status = ZeroStatus
    /\ g_system_tick = 0
    /\ g_last_sensor_update = 0
    /\ g_last_telemetry_send = 0
    /\ g_last_watchdog_feed = 0
    /\ g_system_voltage = 33
    /\ g_system_current = 5
    /\ g_power_save_active = FALSE
    /\ g_system_mutex = "free"
    /\ g_connected = FALSE
    /\ frame_counter = 0
    /\ packet_frame_id = 0
    /\ self_test_passed = TRUE
    /\ telemetry_calls = 0
    /\ watchdog_feeds = 0
    /\ prev_feed_tick = 0
    /\ sink_calls = 0
    /\ g_running = TRUE
    /\ op = "start"

\* --------------------------------------------------------------- actions

\* main: vr_embedded_init(&embedded_config)
BootWith(cfgs, stOutcomes, mqOutcomes) ==
    /\ pc = "boot"
    /\ \E cfg \in cfgs, st_ok \in stOutcomes, mq_ok \in mqOutcomes :
          /\ g_embedded_config' = cfg
          /\ g_embedded_status' =
                vr_embedded_init(g_embedded_status, cfg, st_ok, mq_ok,
                                 g_system_tick)
          /\ g_connected' = vr_rabbitmq_init(g_connected, mq_ok)
          /\ self_test_passed' = st_ok
    /\ packet_frame_id' = 0
    /\ g_system_voltage' = vr_power_init.voltage
    /\ g_system_current' = vr_power_init.current
    /\ g_power_save_active' = vr_power_init.active
    /\ pc' = "main"
    /\ op' = "boot"
    /\ UNCHANGED <<g_system_tick, g_last_sensor_update, g_last_telemetry_send,
                   g_last_watchdog_feed, g_system_mutex, frame_counter,
                   telemetry_calls, watchdog_feeds, prev_feed_tick,
                   sink_calls, g_running>>

Boot == BootWith(Configs, BOOLEAN, BOOLEAN)

\* main: the test of while (g_running) and the call of vr_embedded_main_loop
MainLoop ==
    /\ pc = "main"
    /\ pc' = IF g_running THEN "tick" ELSE "exit"
    /\ op' = "main"
    /\ UNCHANGED <<g_embedded_config, g_embedded_status, g_system_tick,
                   g_last_sensor_update, g_last_telemetry_send,
                   g_last_watchdog_feed, g_system_voltage, g_system_current,
                   g_power_save_active, g_system_mutex, g_connected,
                   frame_counter, packet_frame_id, self_test_passed,
                   telemetry_calls, watchdog_feeds, prev_feed_tick,
                   sink_calls, g_running>>

\* signal_handler: SIGINT or SIGTERM delivered to the running process
Signal ==
    /\ pc \notin {"boot", "exit"}
    /\ g_running
    /\ g_running' = FALSE
    /\ op' = "signal"
    /\ UNCHANGED <<pc, g_embedded_config, g_embedded_status, g_system_tick,
                   g_last_sensor_update, g_last_telemetry_send,
                   g_last_watchdog_feed, g_system_voltage, g_system_current,
                   g_power_save_active, g_system_mutex, g_connected,
                   frame_counter, packet_frame_id, self_test_passed,
                   telemetry_calls, watchdog_feeds, prev_feed_tick,
                   sink_calls>>

\* vr_embedded_system_tick: does the handler lock g_system_mutex again while
\* it holds it (vr_embedded_set_state called with the mutex held)?
TickRelocks(s, v) ==
    \/ TickThresholdTripped(s.error_count)
    \/ (v < 30 /\ ReportThresholdTripped(Inc32(s.error_count)))

TickStatus_NoPowerCheck(s, now, v) ==
    LET s1 == [s EXCEPT !.uptime_ms = now]
    IN  IF TickThresholdTripped(s1.error_count)
        THEN vr_error_handler(vr_embedded_set_state(s1, "ERROR"))
        ELSE s1

TickStatus_Recovers(s, now, v) ==
    LET s1 == [s EXCEPT !.uptime_ms = now]
        s2 == IF TickThresholdTripped(s1.error_count)
              THEN vr_error_handler(vr_embedded_set_state(s1, "ERROR"))
              ELSE vr_embedded_set_state(s1, "READY")
    IN  IF v < 30 THEN vr_error_handler(s2) ELSE s2

\* status when the handler runs to its end
TickStatus(s, now, v) ==
    LET s1 == [s EXCEPT !.uptime_ms = now]
        s2 == IF TickThresholdTripped(s1.error_count)
              THEN vr_error_handler(vr_embedded_set_state(s1, "ERROR"))
              ELSE s1
    IN  IF v < 30 THEN vr_error_handler(s2) ELSE s2

\* status at the point where the handler blocks in pthread_mutex_lock
TickBlockedStatus(s, now, v) ==
    LET s1 == [s EXCEPT !.uptime_ms = now]
    IN  IF TickThresholdTripped(s1.error_count)
        THEN s1
        ELSE [s1 EXCEPT !.error_count = Inc32(@)]

\* Locking a default mutex the thread already holds is undefined: the call
\* either never returns or returns and the handler goes on.
RelockOutcomes == {"deadlock", "proceed"}

SystemTickUpTo(limit) ==
    /\ pc = "tick"
    /\ g_system_tick < limit
    /\ g_system_mutex = "free"
    /\ g_system_tick' = Inc32(g_system_tick)
    /\ \E outcome \in RelockOutcomes :
          IF TickRelocks(g_embedded_status, g_system_voltage)
                /\ outcome = "deadlock"
          THEN /\ g_embedded_status' =
                     TickBlockedStatus(g_embedded_status, g_system_tick',
                                       g_system_voltage)
               /\ g_system_mutex' = "held"
               /\ pc' = "blocked"
          ELSE /\ g_embedded_status' =
                     TickStatus(g_embedded_status, g_system_tick',
                                g_system_voltage)
               /\ g_system_mutex' = "free"
               /\ pc' = StepAfter("tick")
    /\ op' = "tick"
    /\ UNCHANGED <<g_embedded_config, g_last_sensor_update,
                   g_last_telemetry_send, g_last_watchdog_feed,
                   g_system_voltage, g_system_current, g_power_save_active, g_connected,
                   frame_counter, packet_frame_id, self_test_passed,
                   telemetry_calls, watchdog_feeds, prev_feed_tick,
                   sink_calls, g_running>>

SystemTick == SystemTickUpTo(MaxTick)

SensorGate_Tracking ==
    /\ pc = "sensor"
    /\ IF GateDue(g_system_tick, g_last_sensor_update,
                  SensorInterval(g_embedded_config.sensor_update_hz))
       THEN /\ packet_frame_id' = vr_sensors_update(frame_counter).frame_id
            /\ frame_counter' =
                  vr_sensors_update(frame_counter).frame_counter
            /\ g_last_sensor_update' = g_system_tick
            /\ g_embedded_status' =
                  vr_embedded_set_state(g_embedded_status, "TRACKING")
       ELSE UNCHANGED <<packet_frame_id, frame_counter, g_last_sensor_update,
                        g_embedded_status>>
    /\ pc' = StepAfter("sensor")
    /\ op' = "sensor"
    /\ UNCHANGED <<g_embedded_config, g_system_tick,
                   g_last_telemetry_send, g_last_watchdog_feed,
                   g_system_voltage, g_system_current, g_power_save_active, g_system_mutex,
                   g_connected, self_test_passed, telemetry_calls,
                   watchdog_feeds, prev_feed_tick, sink_calls, g_running>>

\* main loop: sensor gate, vr_sensors_update
SensorGate ==
    /\ pc = "sensor"
    /\ IF GateDue(g_system_tick, g_last_sensor_update,
                  SensorInterval(g_embedded_config.sensor_update_hz))
       THEN /\ packet_frame_id' = vr_sensors_update(frame_counter).frame_id
            /\ frame_counter' =
                  vr_sensors_update(frame_counter).frame_counter
            /\ g_last_sensor_update' = g_system_tick
       ELSE UNCHANGED <<packet_frame_id, frame_counter, g_last_sensor_update>>
    /\ pc' = StepAfter("sensor")
    /\ op' = "sensor"
    /\ UNCHANGED <<g_embedded_config, g_embedded_status, g_system_tick,
                   g_last_telemetry_send, g_last_watchdog_feed,
                   g_system_voltage, g_system_current, g_power_save_active, g_system_mutex,
                   g_connected, self_test_passed, telemetry_calls,
                   watchdog_feeds, prev_feed_tick,
                   sink_calls, g_running>>

\* vr_telemetry_send_packet: the status after a send with the given outcome
vr_telemetry_send_packet_ClearOnSuccess(s, connected, ok) ==
    IF ~vr_telemetry_is_ready(s, connected) THEN s
    ELSE IF ok THEN [s EXCEPT !.error_count = 0]
    ELSE [s EXCEPT !.error_count = Inc32(@)]

vr_telemetry_send_packet(s, connected, ok) ==
    IF ~vr_telemetry_is_ready(s, connected) THEN s
    ELSE IF ok THEN s
    ELSE [s EXCEPT !.error_count = Inc32(@)]

TelemetryMark_OnSuccess(now, last, ok) == IF ok THEN now ELSE last

\* main loop: g_last_telemetry_send after a dispatch, whatever its outcome
TelemetryMark(now, last, ok) == now

\* main loop: telemetry gate
TelemetryGateWith(sinkOutcomes) ==
    /\ pc = "telemetry"
    /\ IF GateDue(g_system_tick, g_last_telemetry_send,
                  TelemetryInterval(g_embedded_config.telemetry_rate_hz))
       THEN /\ \E ok \in sinkOutcomes :
                  /\ g_embedded_status' =
                        vr_telemetry_send_packet(g_embedded_status,
                                                 g_connected, ok)
                  /\ g_last_telemetry_send' =
                        TelemetryMark(g_system_tick, g_last_telemetry_send,
                                      ok)
            /\ sink_calls' =
                  IF vr_telemetry_is_ready(g_embedded_status, g_connected)
                  THEN 1 ELSE 0
            /\ telemetry_calls' = Inc32(telemetry_calls)
       ELSE /\ sink_calls' = 0
            /\ UNCHANGED <<g_embedded_status, g_last_telemetry_send,
                           telemetry_calls>>
    /\ pc' = StepAfter("telemetry")
    /\ op' = "telemetry"
    /\ UNCHANGED <<g_embedded_config, g_system_tick, g_last_sensor_update,
                   g_last_watchdog_feed, g_system_voltage, g_system_current,
                   g_power_save_active, g_system_mutex, g_connected,
                   frame_counter, packet_frame_id, self_test_passed,
                   watchdog_feeds, prev_feed_tick,
                   g_running>>

TelemetryGate == TelemetryGateWith(BOOLEAN)

\* main loop: watchdog gate
WatchdogGate ==
    /\ pc = "watchdog"
    /\ IF /\ g_embedded_config.watchdog_enabled
          /\ GateDue(g_system_tick, g_last_watchdog_feed,
                     WatchdogInterval(g_embedded_config.watchdog_timeout_ms))
       THEN /\ g_embedded_status' =
                  vr_watchdog_feed(g_embedded_status, g_system_tick)
            /\ g_last_watchdog_feed' = g_system_tick
            /\ watchdog_feeds' = Inc32(watchdog_feeds)
            /\ prev_feed_tick' = g_last_watchdog_feed
       ELSE UNCHANGED <<g_embedded_status, g_last_watchdog_feed,
                        watchdog_feeds, prev_feed_tick>>
    /\ pc' = StepAfter("watchdog")
    /\ op' = "watchdog"
    /\ UNCHANGED <<g_embedded_config, g_system_tick, g_last_sensor_update,
                   g_last_telemetry_send, g_system_voltage, g_system_current,
                   g_power_save_active, g_system_mutex, g_connected,
                   frame_counter, packet_frame_id, self_test_passed,
                   telemetry_calls,
                   sink_calls, g_running>>

\* vr_power_enter_sleep: the sleep-active flag when it returns
vr_power_enter_sleep_StaysActive(active, level) ==
    IF level > 0 THEN TRUE ELSE active

vr_power_enter_sleep(active, level) == IF level > 0 THEN FALSE ELSE active

\* the flag of the scheduler loop: initialized to true and never written
g_system_running == TRUE

\* main loop: power gate, the idle delay and the loop test
PowerGate ==
    /\ pc = "power"
    /\ g_power_save_active' =
          IF g_embedded_config.power_save_enabled /\ g_power_save_active
          THEN vr_power_enter_sleep(g_power_save_active,
                                    g_embedded_config.cpu_sleep_level)
          ELSE g_power_save_active
    /\ pc' = IF g_system_running THEN "tick" ELSE "main"
    /\ op' = "power"
    /\ UNCHANGED <<g_embedded_config, g_embedded_status, g_system_tick,
                   g_last_sensor_update, g_last_telemetry_send,
                   g_last_watchdog_feed, g_system_voltage, g_system_current, g_system_mutex,
                   g_connected, frame_counter, packet_frame_id,
                   self_test_passed, telemetry_calls, watchdog_feeds,
                   prev_feed_tick,
                   sink_calls, g_running>>

ErrorKinds == 1 .. 6

\* vr_error_handler called through the public interface
ErrorReport ==
    /\ pc \in LoopPcs
    /\ g_system_mutex = "free"
    /\ g_embedded_status.error_count < MaxErrors
    /\ \E kind \in ErrorKinds :
          g_embedded_status' = vr_error_handler(g_embedded_status)
    /\ op' = "error_handler"
    /\ UNCHANGED <<pc, g_embedded_config, g_system_tick, g_last_sensor_update,
                   g_last_telemetry_send, g_last_watchdog_feed,
                   g_system_voltage, g_system_current, g_power_save_active, g_system_mutex,
                   g_connected, frame_counter, packet_frame_id,
                   self_test_passed, telemetry_calls, watchdog_feeds,
                   prev_feed_tick,
                   sink_calls, g_running>>

\* vr_system_reset: the three assignments before the call of vr_embedded_init
ResetPrelude(s) ==
    [s EXCEPT !.reset_count = Inc32(@), !.error_count = 0, !.state = "INIT"]

SystemReset_Rewinds ==
    /\ pc \in LoopPcs
    /\ g_system_mutex = "free"
    /\ \E st_ok \in BOOLEAN, mq_ok \in BOOLEAN :
          /\ g_embedded_status' =
                vr_embedded_init(ResetPrelude(g_embedded_status),
                                 g_embedded_config, st_ok, mq_ok,
                                 g_system_tick)
          /\ g_connected' = vr_rabbitmq_init(g_connected, mq_ok)
          /\ self_test_passed' = st_ok
    /\ packet_frame_id' = 0
    /\ g_system_voltage' = vr_power_init.voltage
    /\ g_system_current' = vr_power_init.current
    /\ g_power_save_active' = vr_power_init.active
    /\ g_last_sensor_update' = 0
    /\ op' = "reset"
    /\ UNCHANGED <<pc, g_embedded_config, g_system_tick,
                   g_last_telemetry_send, g_last_watchdog_feed,
                   g_system_mutex, frame_counter, telemetry_calls,
                   watchdog_feeds, prev_feed_tick,
                   sink_calls, g_running>>

\* vr_system_reset called through the public interface
SystemReset ==
    /\ pc \in LoopPcs
    /\ g_system_mutex = "free"
    /\ \E st_ok \in BOOLEAN, mq_ok \in BOOLEAN :
          /\ g_embedded_status' =
                vr_embedded_init(ResetPrelude(g_embedded_status),
                                 g_embedded_config, st_ok, mq_ok,
                                 g_system_tick)
          /\ g_connected' = vr_rabbitmq_init(g_connected, mq_ok)
          /\ self_test_passed' = st_ok
    /\ packet_frame_id' = 0
    /\ g_system_voltage' = vr_power_init.voltage
    /\ g_system_current' = vr_power_init.current
    /\ g_power_save_active' = vr_power_init.active
    /\ op' = "reset"
    /\ UNCHANGED <<pc, g_embedded_config, g_system_tick, g_last_sensor_update,
                   g_last_telemetry_send, g_last_watchdog_feed,
                   g_system_mutex, frame_counter, telemetry_calls,
                   watchdog_feeds, prev_feed_tick,
                   sink_calls, g_running>>

Next ==
    \/ Boot
    \/ MainLoop
    \/ SystemTick
    \/ SensorGate
    \/ TelemetryGate
    \/ WatchdogGate
    \/ PowerGate
    \/ ErrorReport
    \/ SystemReset

Spec == Init /\ [][Next]_vars

TypeOK ==
    /\ pc \in LoopPcs \cup {"boot", "main", "exit", "blocked", "sleeping"}
    /\ g_embedded_status.state \in {"INIT", "READY", "TRACKING", "ERROR",
                                    "SLEEP", "SHUTDOWN"}
    /\ g_system_mutex \in {"free", "held"}

\* ------------------------------------------------------------- scenarios

\* the configuration main() builds when no option is given
DefaultConfig ==
    [ sensor_update_hz |-> 1000, telemetry_rate_hz |-> 60,
      watchdog_enabled |-> TRUE, watchdog_timeout_ms |-> 5000,
      power_save_enabled |-> FALSE, cpu_sleep_level |-> 1 ]

\* 1000 Hz sensors, 60 Hz telemetry, a sink that always succeeds
InitSucceeding == Init

NextSucceeding ==
    \/ BootWith({DefaultConfig}, BOOLEAN, {TRUE})
    \/ MainLoop
    \/ SystemTickUpTo(ScenarioTicks)
    \/ SensorGate
    \/ TelemetryGateWith({TRUE})
    \/ WatchdogGate
    \/ PowerGate

SpecSucceeding == InitSucceeding /\ [][NextSucceeding]_vars

\* 60 Hz telemetry, a connected sink that fails every call
InitFailing == Init

NextFailing ==
    \/ BootWith({DefaultConfig}, {TRUE}, {TRUE})
    \/ MainLoop
    \/ SystemTickUpTo(FailTicks)
    \/ SensorGate
    \/ TelemetryGateWith({FALSE})
    \/ WatchdogGate
    \/ PowerGate

SpecFailing == InitFailing /\ [][NextFailing]_vars

\* a shutdown signal arriving at any time while the sink always succeeds
ShutdownConfig ==
    [ sensor_update_hz |-> 1000, telemetry_rate_hz |-> 1000,
      watchdog_enabled |-> TRUE, watchdog_timeout_ms |-> 2,
      power_save_enabled |-> FALSE, cpu_sleep_level |-> 1 ]

InitShutdown == Init

\* the steps of the main thread
ThreadShutdown ==
    \/ BootWith({ShutdownConfig}, {TRUE}, {TRUE})
    \/ MainLoop
    \/ SystemTickUpTo(U32)
    \/ SensorGate
    \/ TelemetryGateWith({TRUE})
    \/ WatchdogGate
    \/ PowerGate

NextShutdown == ThreadShutdown \/ Signal

\* the main thread is always scheduled again; the signal may never come
SpecShutdown ==
    InitShutdown /\ [][NextShutdown]_vars /\ WF_vars(ThreadShutdown)

\* the run of main() alone: vr_embedded_init, then the run loop, and no other
\* caller of the public interface.  This is the run with -n; without -n main
\* calls vr_rabbitmq_init once more before the loop, which leaves g_connected
\* true or ends the process.
InitMainThread == Init

NextMainThread ==
    \/ Boot
    \/ MainLoop
    \/ SystemTick
    \/ SensorGate
    \/ TelemetryGate
    \/ WatchdogGate
    \/ PowerGate

SpecMainThread == InitMainThread /\ [][NextMainThread]_vars

\* vr_power_wake_up: the sleep-active flag when it returns
vr_power_wake_up(active) == FALSE

\* vr_power_enter_sleep(g_embedded_config.cpu_sleep_level) called through the
\* public interface: the call up to its vr_delay_ms(10)
PowerEnterSleep ==
    /\ pc = "tick"
    /\ IF g_embedded_config.cpu_sleep_level > 0
       THEN /\ g_power_save_active' = TRUE
            /\ pc' = "sleeping"
       ELSE UNCHANGED <<g_power_save_active, pc>>
    /\ op' = "enter_sleep"
    /\ UNCHANGED <<g_embedded_config, g_embedded_status, g_system_tick,
                   g_last_sensor_update, g_last_telemetry_send,
                   g_last_watchdog_feed, g_system_voltage, g_system_current,
                   g_system_mutex, g_connected, frame_counter,
                   packet_frame_id, self_test_passed, telemetry_calls,
                   watchdog_feeds, prev_feed_tick, sink_calls, g_running>>

\* vr_power_enter_sleep: the end of the delay and the return
PowerSleepReturn ==
    /\ pc = "sleeping"
    /\ g_power_save_active' =
          vr_power_enter_sleep(g_power_save_active,
                               g_embedded_config.cpu_sleep_level)
    /\ pc' = "tick"
    /\ op' = "sleep_return"
    /\ UNCHANGED <<g_embedded_config, g_embedded_status, g_system_tick,
                   g_last_sensor_update, g_last_telemetry_send,
                   g_last_watchdog_feed, g_system_voltage, g_system_current,
                   g_system_mutex, g_connected, frame_counter,
                   packet_frame_id, self_test_passed, telemetry_calls,
                   watchdog_feeds, prev_feed_tick, sink_calls, g_running>>

\* vr_power_wake_up called through the public interface, also while a
\* vr_power_enter_sleep call is in its delay
PowerWakeUp ==
    /\ pc \in {"tick", "sleeping"}
    /\ g_power_save_active' = vr_power_wake_up(g_power_save_active)
    /\ op' = "wake_up"
    /\ UNCHANGED <<pc, g_embedded_config, g_embedded_status, g_system_tick,
                   g_last_sensor_update, g_last_telemetry_send,
                   g_last_watchdog_feed, g_system_voltage, g_system_current,
                   g_system_mutex, g_connected, frame_counter,
                   packet_frame_id, self_test_passed, telemetry_calls,
                   watchdog_feeds, prev_feed_tick, sink_calls, g_running>>

\* a run through the wrap of the tick counter: intervals of 2 (sensors),
\* 3 (telemetry) and 2 (watchdog) ticks, a sink that always succeeds
WrapConfig ==
    [ sensor_update_hz |-> 400, telemetry_rate_hz |-> 300,
      watchdog_enabled |-> TRUE, watchdog_timeout_ms |-> 5,
      power_save_enabled |-> FALSE, cpu_sleep_level |-> 1 ]

InitWrap == Init

NextWrap ==
    \/ BootWith({WrapConfig}, {TRUE}, {TRUE})
    \/ MainLoop
    \/ SystemTickUpTo(U32)
    \/ SensorGate
    \/ TelemetryGateWith({TRUE})
    \/ WatchdogGate
    \/ PowerGate

SpecWrap == InitWrap /\ [][NextWrap]_vars

\* the power interface called on an initialized system
InitPower == Init

NextPower ==
    \/ Boot
    \/ MainLoop
    \/ PowerEnterSleep
    \/ PowerSleepReturn
    \/ PowerWakeUp

SpecPower == InitPower /\ [][NextPower]_vars

\* operations all of whose writes of g_embedded_status lie between
\* pthread_mutex_lock and pthread_mutex_unlock of g_system_mutex
MutexHeldAtWrites(o) == o \in {"boot", "tick"}

\* ---------------------------------------------------------------- claims

Max(a, b) == IF a >= b THEN a ELSE b

\* ticks whose sensor gate has already been evaluated
SensorGatesDone ==
    IF pc \in {"sensor", "blocked"} THEN g_system_tick - 1 ELSE g_system_tick

\* ticks whose watchdog gate has already been evaluated
WatchdogGatesDone ==
    IF pc \in {"sensor", "telemetry", "watchdog", "blocked"}
    THEN g_system_tick - 1
    ELSE g_system_tick

\* C1 (as stated): after the vr_error_handler call that makes the error
\* count reach 5, the state is Error.
C1_ErrorAtFifthReport ==
    (op = "error_handler" /\ g_embedded_status.error_count = 5)
        => g_embedded_status.state = "ERROR"

\* C1 (amended): after the vr_error_handler call that makes the error count
\* reach 6 (the first count above 5), the state is Error.
C1_ErrorAtSixthReport ==
    (op = "error_handler" /\ g_embedded_status.error_count = 6)
        => g_embedded_status.state = "ERROR"

C1_Witness ==
    /\ op = "error_handler"
    /\ g_embedded_status.error_count = 6
    /\ g_embedded_status.state = "ERROR"

\* C2: once the state is Error, only vr_system_reset changes it; no tick,
\* report, sensor update, dispatch, feed or power step leaves Error.
C2_ErrorLeftOnlyByReset ==
    [][ (g_embedded_status.state = "ERROR"
            /\ g_embedded_status'.state # "ERROR") => op' = "reset" ]_vars

C2_Witness ==
    /\ g_embedded_status.state = "ERROR"
    /\ op = "tick"
    /\ pc = "sensor"
    /\ g_embedded_status.error_count <= 10

\* C3: every vr_system_reset leaves reset_count one greater than before.
C3_ResetIncrementsResetCount ==
    [][ op' = "reset" =>
          g_embedded_status'.reset_count
             = g_embedded_status.reset_count + 1 ]_vars

\* C4 (as stated): every vr_system_reset leaves the error count at 0,
\* whatever the outcome of the self-test.
C4_ResetZeroesErrorCount ==
    op = "reset" => g_embedded_status.error_count = 0

\* C4 (amended): a vr_system_reset leaves the error count at 0 when the
\* self-test of the re-initialization passed and at 1 when it failed.
C4_ResetErrorCountBySelfTest ==
    op = "reset" =>
        g_embedded_status.error_count = (IF self_test_passed THEN 0 ELSE 1)

C4_Witness ==
    /\ op = "reset"
    /\ ~self_test_passed
    /\ g_embedded_status.error_count = 1

\* C5: no step other than a reset lowers the error count.
C5_ErrorCountMonotone ==
    [][ op' # "reset" =>
          g_embedded_status'.error_count
             >= g_embedded_status.error_count ]_vars

C5_Witness ==
    /\ op = "telemetry"
    /\ g_embedded_status.error_count >= 3
    /\ telemetry_calls >= 3
    /\ g_embedded_status.state = "READY"

\* C6: for a sensor rate r in 1..1000 the sensor update has fired exactly
\* once per floor(1000/r) ticks: after n evaluated gates there have been
\* n div floor(1000/r) updates, the last one at a multiple of the interval.
C6_SensorCadence ==
    (pc # "boot" /\ g_embedded_config.sensor_update_hz \in 1 .. 1000) =>
        LET k == 1000 \div g_embedded_config.sensor_update_hz
        IN  /\ frame_counter = SensorGatesDone \div k
            /\ g_last_sensor_update = k * frame_counter

C6_Witness ==
    /\ g_embedded_config.sensor_update_hz = 400
    /\ frame_counter = 3
    /\ g_last_sensor_update = 6
    /\ g_system_tick = 7

\* C7 (as stated): 2000 ticks at 1000 Hz / 60 Hz with a succeeding sink
\* give 2000 sensor updates and 119..121 telemetry dispatches.
C7_About120Dispatches ==
    (g_system_tick = 2000 /\ pc = "tick") =>
        /\ frame_counter = 2000
        /\ telemetry_calls \in 119 .. 121

\* C7 (amended): they give 2000 sensor updates and exactly 125 telemetry
\* dispatches (one every floor(1000/60) = 16 ticks).
C7_Exactly125Dispatches ==
    (g_system_tick = 2000 /\ pc = "tick") =>
        /\ frame_counter = 2000
        /\ telemetry_calls = 125

C7_Witness ==
    /\ g_system_tick = 2000
    /\ pc = "tick"
    /\ frame_counter = 2000
    /\ telemetry_calls = 125

\* C8: with a sink failing every call the error count is 5 by tick 83, the
\* state is Error once the count has reached 5, and the sensor update keeps
\* firing on every tick.
C8_FailingSinkEscalates ==
    /\ (g_system_tick >= 83 => g_embedded_status.error_count >= 5)
    /\ (g_embedded_status.error_count >= 5
           => g_embedded_status.state = "ERROR")
    /\ pc # "blocked"
    /\ (pc # "boot" => frame_counter = SensorGatesDone)

\* C9 (as stated): consecutive watchdog feeds are floor(T/2) ticks apart, and
\* a disabled watchdog is never fed.
C9_FeedsHalfTimeoutApart ==
    /\ (~g_embedded_config.watchdog_enabled => watchdog_feeds = 0)
    /\ (watchdog_feeds >= 2 =>
           Sub32(g_last_watchdog_feed, prev_feed_tick)
              = g_embedded_config.watchdog_timeout_ms \div 2)

\* C9 (amended): with the watchdog enabled the feed has fired exactly once
\* per max(1, floor(T/2)) ticks, consecutive feeds being that many ticks
\* apart; a disabled watchdog is never fed.
C9_FeedCadence ==
    /\ (~g_embedded_config.watchdog_enabled => watchdog_feeds = 0)
    /\ (g_embedded_config.watchdog_enabled =>
          LET k == Max(1, g_embedded_config.watchdog_timeout_ms \div 2)
          IN  /\ watchdog_feeds = WatchdogGatesDone \div k
              /\ g_last_watchdog_feed = k * watchdog_feeds
              /\ (watchdog_feeds >= 2 =>
                     Sub32(g_last_watchdog_feed, prev_feed_tick) = k))

C9_Witness ==
    /\ g_embedded_config.watchdog_enabled
    /\ g_embedded_config.watchdog_timeout_ms = 5
    /\ watchdog_feeds = 3
    /\ g_last_watchdog_feed = 6
    /\ prev_feed_tick = 4

\* C10 (as stated): with the watchdog enabled and T > 0, tick minus last-fed
\* tick is below T in every state.
C10_NeverExpiredPositiveTimeout ==
    (g_embedded_config.watchdog_enabled
        /\ g_embedded_config.watchdog_timeout_ms > 0) =>
        Sub32(g_system_tick, g_embedded_status.last_watchdog_reset)
           < g_embedded_config.watchdog_timeout_ms

\* C10 (amended): with the watchdog enabled and T >= 2, tick minus last-fed
\* tick is below T in every state.
C10_NeverExpiredTimeoutAtLeastTwo ==
    (g_embedded_config.watchdog_enabled
        /\ g_embedded_config.watchdog_timeout_ms >= 2) =>
        Sub32(g_system_tick, g_embedded_status.last_watchdog_reset)
           < g_embedded_config.watchdog_timeout_ms

C10_Witness ==
    /\ g_embedded_config.watchdog_enabled
    /\ g_embedded_config.watchdog_timeout_ms = 5
    /\ pc = "watchdog"
    /\ Sub32(g_system_tick, g_embedded_status.last_watchdog_reset) = 2
    /\ watchdog_feeds >= 1

\* ticks whose telemetry gate has already been evaluated
TelemetryGatesDone ==
    IF pc \in {"sensor", "telemetry", "blocked"} THEN g_system_tick - 1
    ELSE g_system_tick

\* C11: a tick on which the watchdog is enabled and tick minus last-fed tick
\* is at least the timeout reports an error (the error count rises).
C11_ExpiryReported ==
    [][ ( /\ op' = "tick"
          /\ g_embedded_config.watchdog_enabled
          /\ Sub32(g_system_tick', g_embedded_status'.last_watchdog_reset)
                >= g_embedded_config.watchdog_timeout_ms )
        => g_embedded_status'.error_count > g_embedded_status.error_count
      ]_vars

\* C12: the state is never Tracking and never Sleep.
C12_NeverTrackingNorSleep ==
    g_embedded_status.state \notin {"TRACKING", "SLEEP"}

C12_Witness ==
    /\ g_embedded_status.state = "ERROR"
    /\ op = "sensor"
    /\ frame_counter >= 2
    /\ g_last_sensor_update = g_system_tick

\* C13: when the self-test fails during vr_embedded_init, the state is not
\* Ready and sensors_initialized is not true when the call returns.
C13_ReadyOnlyAfterPassedSelfTest ==
    (op = "boot" /\ ~self_test_passed) =>
        /\ g_embedded_status.state # "READY"
        /\ ~g_embedded_status.sensors_initialized

\* C14: once the shutdown signal has cleared the running flag, the process
\* eventually leaves the run loop and reaches its exit.
C14_ShutdownReachesExit == (~g_running) ~> (pc = "exit")

\* C15: the tick handler always returns: the main thread is never stuck
\* inside it.
C15_TickHandlerReturns == pc # "blocked"

\* C16: no tick handler call locks g_system_mutex while it holds it.
C16_NoRelock ==
    [][ op' = "tick"
          => ~TickRelocks(g_embedded_status, g_system_voltage) ]_vars

\* C17: every step that changes System Status holds the mutex at all of its
\* writes.
C17_StatusWrittenUnderMutex ==
    [][ g_embedded_status' # g_embedded_status
          => MutexHeldAtWrites(op') ]_vars

\* C18: every increment of the error count is followed in the same step by
\* the evaluation of the report-path threshold (count above 5 forces Error).
C18_IncrementEvaluatesThreshold ==
    [][ g_embedded_status'.error_count > g_embedded_status.error_count
          => ( g_embedded_status'.error_count > 5
                  => g_embedded_status'.state = "ERROR" ) ]_vars

\* C19: a due telemetry gate sets the last-telemetry mark to the current tick
\* and calls the sink at most once, whatever the outcome; a gate that is not
\* due (the interval since the last dispatch has not elapsed) dispatches
\* nothing.
C19_DispatchOncePerInterval ==
    [][ op' = "telemetry" =>
          IF Sub32(g_system_tick, g_last_telemetry_send)
                >= 1000 \div g_embedded_config.telemetry_rate_hz
          THEN /\ g_last_telemetry_send' = g_system_tick
               /\ telemetry_calls' = Inc32(telemetry_calls)
               /\ sink_calls' <= 1
          ELSE /\ g_last_telemetry_send' = g_last_telemetry_send
               /\ telemetry_calls' = telemetry_calls
               /\ sink_calls' = 0
               /\ g_embedded_status' = g_embedded_status ]_vars

C19_Witness ==
    /\ op = "telemetry"
    /\ g_embedded_config.telemetry_rate_hz = 300
    /\ g_last_telemetry_send = g_system_tick
    /\ telemetry_calls = 2
    /\ sink_calls = 1
    /\ g_embedded_status.error_count = 2
    /\ self_test_passed

\* C20: a sensor or telemetry rate above 1000 Hz gives the interval 0 and the
\* action has fired on every tick.
C20_AboveKilohertzEveryTick ==
    pc # "boot" =>
        /\ (g_embedded_config.sensor_update_hz > 1000 =>
               /\ SensorInterval(g_embedded_config.sensor_update_hz) = 0
               /\ frame_counter = SensorGatesDone
               /\ g_last_sensor_update = SensorGatesDone)
        /\ (g_embedded_config.telemetry_rate_hz > 1000 =>
               /\ TelemetryInterval(g_embedded_config.telemetry_rate_hz) = 0
               /\ telemetry_calls = TelemetryGatesDone
               /\ g_last_telemetry_send = TelemetryGatesDone)

C20_Witness ==
    /\ g_embedded_config.sensor_update_hz = 2000
    /\ g_embedded_config.telemetry_rate_hz = 2000
    /\ pc = "tick"
    /\ g_system_tick = 5
    /\ frame_counter = 5
    /\ telemetry_calls = 5
    /\ g_embedded_status.state = "ERROR"

\* C21: every packet handed to the sink was assembled in the tick of its
\* dispatch (so no frame id is dispatched twice and neither an earlier packet
\* nor the initial one is dispatched).
C21_DispatchedPacketIsFresh ==
    [][ (op' = "telemetry" /\ sink_calls' = 1)
          => g_last_sensor_update = g_system_tick ]_vars

\* C22: in the run with -n no broker connection is made and the sink is never
\* called.
C22_NoRabbitmqNoSink == ~g_connected /\ sink_calls = 0

\* C23: the steps of one tick follow the order tick handler, sensor update,
\* telemetry dispatch, watchdog feed, power step; and when the sensor update
\* fired in the tick of a dispatch, the packet handed to the sink carries the
\* frame id assigned in that tick (the last one assigned).
C23_FixedOrderFreshFrame ==
    [][ /\ (pc = "tick" /\ pc' # pc => pc' \in {"sensor", "blocked"})
        /\ (pc = "sensor" /\ pc' # pc => pc' = "telemetry")
        /\ (pc = "telemetry" /\ pc' # pc => pc' = "watchdog")
        /\ (pc = "watchdog" /\ pc' # pc => pc' = "power")
        /\ (pc = "power" /\ pc' # pc => pc' = "tick")
        /\ ( (op' = "telemetry" /\ sink_calls' = 1
                 /\ g_last_sensor_update = g_system_tick)
               => Inc32(packet_frame_id) = frame_counter ) ]_vars

C23_Witness ==
    /\ op = "telemetry"
    /\ sink_calls = 1
    /\ g_embedded_config.sensor_update_hz = 400
    /\ g_embedded_config.telemetry_rate_hz = 300
    /\ g_system_tick = 6
    /\ g_last_sensor_update = 6
    /\ g_last_telemetry_send = 6
    /\ packet_frame_id = 2
    /\ frame_counter = 3

\* C24: at every tick whose per-tick guard trips, the state has already been
\* forced to Error.
C24_ReportThresholdFiresFirst ==
    [][ (op' = "tick" /\ TickThresholdTripped(g_embedded_status.error_count))
          => g_embedded_status.state = "ERROR" ]_vars

C27_ReportOnlyCounts ==
    [][ op' = "error_handler" =>
          /\ g_embedded_status'.error_count
                = Inc32(g_embedded_status.error_count)
          /\ ( g_embedded_status'.error_count <= 5 =>
                  /\ g_embedded_status' =
                        [g_embedded_status EXCEPT
                            !.error_count = g_embedded_status'.error_count]
                  /\ UNCHANGED <<pc, g_embedded_config, g_system_tick,
                                 g_last_sensor_update, g_last_telemetry_send,
                                 g_last_watchdog_feed, g_system_voltage,
                                 g_system_current, g_power_save_active,
                                 g_system_mutex, g_connected, frame_counter,
                                 packet_frame_id>> ) ]_vars

C27_Witness ==
    /\ op = "error_handler"
    /\ g_embedded_status.error_count = 5
    /\ g_embedded_status.state = "READY"
    /\ g_system_tick >= 2
    /\ g_last_sensor_update >= 2

\* C28: vr_power_enter_sleep(level) with level > 0 returns with the
\* sleep-active flag cleared, with level 0 it changes nothing, and
\* vr_power_wake_up clears the flag; none of them changes the voltage, the
\* current or System Status.
C28_PowerCallsFrame ==
    [][ /\ (op' = "sleep_return" => ~g_power_save_active')
        /\ ( (op' = "enter_sleep"
                 /\ g_embedded_config.cpu_sleep_level = 0) =>
                UNCHANGED <<pc, g_embedded_config, g_embedded_status,
                            g_system_tick, g_last_sensor_update,
                            g_last_telemetry_send, g_last_watchdog_feed,
                            g_system_voltage, g_system_current,
                            g_power_save_active, g_system_mutex, g_connected,
                            frame_counter, packet_frame_id>> )
        /\ (op' = "wake_up" => ~g_power_save_active')
        /\ ( op' \in {"enter_sleep", "sleep_return", "wake_up"} =>
                UNCHANGED <<g_system_voltage, g_system_current,
                            g_embedded_status>> ) ]_vars

C28_Witness ==
    /\ op = "wake_up"
    /\ pc = "sleeping"
    /\ ~g_power_save_active
    /\ g_embedded_config.cpu_sleep_level = 1

\* C29: a sensor update assigns the frame id one greater than the previous
\* one (the counter's value) and advances the counter by 1 modulo the word;
\* no other step changes the frame counter.
C29_FrameCounterOnlyInUpdate ==
    [][ /\ ( (op' = "sensor" /\ g_last_sensor_update' # g_last_sensor_update)
               => /\ packet_frame_id' = frame_counter
                  /\ frame_counter' = (frame_counter + 1) % U32 )
        /\ ( (op' = "sensor" /\ g_last_sensor_update' = g_last_sensor_update)
               => frame_counter' = frame_counter )
        /\ ( op' # "sensor" => frame_counter' = frame_counter ) ]_vars

C29_Witness ==
    /\ op = "reset"
    /\ frame_counter = 3
    /\ packet_frame_id = 0
    /\ g_embedded_status.error_count = 1
    /\ g_last_sensor_update = 3

\* C30: at every evaluation of the power gate the sleep-active flag is false,
\* so vr_power_enter_sleep is never called by the main loop.
C30_PowerSleepNeverRuns ==
    [][ op' = "power" => ~g_power_save_active ]_vars

C30_Witness ==
    /\ op = "power"
    /\ g_embedded_config.power_save_enabled
    /\ g_embedded_config.cpu_sleep_level = 1
    /\ g_system_tick = 3
    /\ ~g_power_save_active

\* C31: a tick that begins with the error count above 10 sets the state to
\* Error and raises the error count by at least one.
C31_TickAboveTenGrowsCount ==
    [][ (op' = "tick" /\ g_embedded_status.error_count > 10) =>
          /\ g_embedded_status'.state = "ERROR"
          /\ g_embedded_status'.error_count
                >= g_embedded_status.error_count + 1 ]_vars

\* C32: vr_system_reset leaves the tick counter and the last-sensor,
\* last-telemetry and last-watchdog-feed marks unchanged, and re-initializes
\* the status copies: uptime 0, last watchdog reset the current tick with the
\* watchdog enabled and 0 without.
C32_ResetKeepsTiming ==
    [][ op' = "reset" =>
          /\ UNCHANGED <<g_system_tick, g_last_sensor_update,
                         g_last_telemetry_send, g_last_watchdog_feed>>
          /\ g_embedded_status'.uptime_ms = 0
          /\ g_embedded_status'.last_watchdog_reset =
                IF g_embedded_config.watchdog_enabled THEN g_system_tick
                ELSE 0 ]_vars

C32_Witness ==
    /\ op = "reset"
    /\ g_embedded_config.sensor_update_hz = 400
    /\ g_embedded_config.watchdog_timeout_ms = 5
    /\ g_embedded_config.watchdog_enabled
    /\ g_system_tick = 5
    /\ g_last_sensor_update = 4
    /\ g_last_telemetry_send = 3
    /\ g_last_watchdog_feed = 4
    /\ g_embedded_status.uptime_ms = 0
    /\ g_embedded_status.last_watchdog_reset = 5

\* C33: a due telemetry dispatch made while the telemetry path is not ready
\* does not call the sink, leaves System Status unchanged and sets the
\* last-telemetry mark to the current tick.
C33_NotReadyDropsSilently ==
    [][ ( /\ op' = "telemetry"
          /\ (g_system_tick - g_last_telemetry_send) % U32
                >= 1000 \div g_embedded_config.telemetry_rate_hz
          /\ ~(g_embedded_status.communication_ready /\ g_connected) ) =>
          /\ sink_calls' = 0
          /\ g_embedded_status' = g_embedded_status
          /\ g_last_telemetry_send' = g_system_tick ]_vars

C33_Witness ==
    /\ op = "telemetry"
    /\ ~g_connected
    /\ g_embedded_config.telemetry_rate_hz = 300
    /\ g_system_tick = 6
    /\ g_last_telemetry_send = 6
    /\ telemetry_calls = 2
    /\ sink_calls = 0
    /\ g_embedded_status.error_count = 0

\* C34: also across the wrap of the tick counter, every firing of a gate
\* comes exactly its interval of ticks after the previous one (counted modulo
\* the word), and after a gate's evaluation less than its interval has
\* elapsed since its mark.
C34_GatesCorrectAcrossWrap ==
    [][ LET si == 1000 \div g_embedded_config.sensor_update_hz
            ti == 1000 \div g_embedded_config.telemetry_rate_hz
            wi == g_embedded_config.watchdog_timeout_ms \div 2
        IN  /\ (op' = "sensor" =>
                  /\ (g_system_tick - g_last_sensor_update') % U32 < si
                  /\ (g_last_sensor_update' # g_last_sensor_update =>
                        (g_last_sensor_update' - g_last_sensor_update) % U32
                           = si))
            /\ (op' = "telemetry" =>
                  /\ (g_system_tick - g_last_telemetry_send') % U32 < ti
                  /\ (g_last_telemetry_send' # g_last_telemetry_send =>
                        (g_last_telemetry_send' - g_last_telemetry_send)
                           % U32 = ti))
            /\ (op' = "watchdog" =>
                  /\ (g_system_tick - g_last_watchdog_feed') % U32 < wi
                  /\ (g_last_watchdog_feed' # g_last_watchdog_feed =>
                        (g_last_watchdog_feed' - g_last_watchdog_feed) % U32
                           = wi)) ]_vars

C34_Witness ==
    /\ op = "telemetry"
    /\ g_system_tick = 1
    /\ g_last_telemetry_send = 1
    /\ telemetry_calls = 2731
    /\ g_last_sensor_update = 0
    /\ frame_counter = 4096

====
